---- MODULE Spec2Model ----
(***************************************************************************)
(* Model of src/src/vm.rs: construction (VirtualMachine::new) and launch   *)
(* (VirtualMachine::launch) of a VT-x guest.                               *)
(*                                                                         *)
(* 64-bit values are modelled as the set of their set bit positions, so    *)
(* that `&` is \cap, `|` is \cup and `& !m` is set difference, exactly,    *)
(* for every width up to 64 bits.                                          *)
(*                                                                         *)
(* The crate is a bare-metal kernel: a panic (`expect`, `unreachable!`)    *)
(* ends in the panic handler and never unwinds, so no destructor runs.     *)
(***************************************************************************)
EXTENDS Integers, Sequences, FiniteSets, TLC

\* ------------------------------------------------------------------ bounds
\* longest image list a VirtualMachineConfig is given
MaxImages == 1
\* number of bit positions the constrained write alone is exercised over
FixedWidth == 3

\* --------------------------------------------------------------- bit values
\* the bits of a natural number below 2^31
Bits(n) == {i \in 0..30 : (n \div (2 ^ i)) % 2 = 1}

\* v << k, truncated to 64 bits
Shl(v, k) == {i + k : i \in v} \cap (0..63)

\* Size4KiB: a frame is 2^12 bytes
PageShift == 12

\* PhysFrame::start_address().as_u64() of the n-th frame of physical memory
FrameAddr(n) == Shl(Bits(n), PageShift)

\* RFlags::CARRY_FLAG and RFlags::ZERO_FLAG
CARRY_FLAG == 0
ZERO_FLAG == 6

\* VmExitCtrlFlags::IA32E_MODE (host address-space size, 1 << 9)
IA32E_MODE == 9
\* CpuBasedCtrlFlags::ACTIVATE_SECONDARY_CONTROLS (1 << 31)
ACTIVATE_SECONDARY_CONTROLS == 31
ENABLE_EPT == 1

\* the literal 0xFFFFF000 (bits 12..31)
PlaceholderEntry == 12..31
\* the literal 0xffffffff
AllOnes32 == 0..31

\* -------------------------------------------------------------- the inputs
\* destinations an image may be loaded at
ImageDests == {Bits(1048576)}
\* page counts a configuration may ask for
MemorySizes == {1, 4}

RECURSIVE SeqsUpTo(_, _)
SeqsUpTo(S, n) ==
    IF n = 0 THEN {<<>>}
    ELSE LET shorter == SeqsUpTo(S, n - 1)
         IN shorter \cup {Append(s, x) : s \in {t \in shorter : Len(t) = n - 1}, x \in S}

\* VirtualMachineConfig { images, memory }: new() starts with no image and
\* load_image() pushes one (here only the destination; the bytes are opaque)
Configs == [images : SeqsUpTo(ImageDests, MaxImages), memory : MemorySizes]

\* what the host's registers hold when new() runs (opaque to the code)
HostReg(r) ==
    CASE r = "Cr0" -> Bits(327731) \cup {31}
      [] r = "Cr3" -> FrameAddr(512)
      [] r = "Cr4" -> Bits(8224)
      [] r = "IdtrBase" -> FrameAddr(513)
      [] r = "GdtrBase" -> FrameAddr(514)
      [] r = "FsBase" -> {}
      [] r = "GsBase" -> {}
      [] r = "Efer" -> Bits(3328)
      [] r = "vmexit_handler_wrapper" -> FrameAddr(515) \cup Bits(64)

\* values MSR_IA32_VMX_CR0_FIXED0 / MSR_IA32_VMX_CR4_FIXED0 may report
Cr0Fixed0Values == {Bits(33) \cup {31}, Bits(34)}
Cr4Fixed0Values == {Bits(8192)}

\* the control bit each capability MSR is modelled on: the one the code asks
\* for, or, where it asks for none, one bit of the field
CapBits(msr) ==
    CASE msr = "MSR_IA32_VMX_PROCBASED_CTLS" -> {ACTIVATE_SECONDARY_CONTROLS}
      [] msr = "MSR_IA32_VMX_PINBASED_CTLS" -> {0}
      [] msr = "MSR_IA32_VMX_EXIT_CTLS" -> {IA32E_MODE}
      [] msr = "MSR_IA32_VMX_ENTRY_CTLS" -> {IA32E_MODE}

\* the mask pairs a capability MSR may report
CapValues(msr) == [allowed1 : SUBSET CapBits(msr), required1 : SUBSET CapBits(msr)]

\* ---------------------------------------------------------------- state
VARIABLES
    pc,            \* where control is: in new, in a setup step, in launch
    stepNo,        \* index in StepOrder of the setup step that is running
    ip,            \* index of the next statement of that step (or of launch)
    config,        \* the VirtualMachineConfig handed to new
    vmcsState,     \* "None", "Inactive", "TemporarilyActive", "Active"
    sessions,      \* configuration sessions opened and closed so far
    fields,        \* the control structure: field -> value
    written,       \* fields a write has succeeded on
    failedWrites,  \* fields a write has failed on
    writeCtx,      \* <<vmcsState, pc>> of every write attempted
    allocRequests, \* calls of allocate_frame so far
    allocFailedAt, \* number of the request that returned None (0: none)
    frames,        \* role -> number of the frame allocated for it (0: none)
    eptRoot,       \* is the PML4 table initialised
    eptMap,        \* guest-physical address -> host frame, as pairs
    started,       \* the setup steps entered, in order
    returned,      \* setup step -> "none", "ok", "err"
    locals,        \* guest_cr0 / guest_cr4 of initialize_guest_vmcs
    closureResult, \* what the closure of with_active_vmcs returned
    result,        \* what new returned
    machine,       \* the VirtualMachine the caller holds (or NoMachine)
    fx,            \* operands and outcome of the last write_with_fixed
    lastRead,      \* field and value of the last read_field
    rflags,        \* RFLAGS captured after vmlaunch
    entered,       \* did the CPU accept the VM entry
    launchResult,  \* what launch returned
    running,       \* the VirtualMachineRunning produced (never, today)
    otherFrames    \* frames handed to the machines built before this one

vars ==
    <<pc, stepNo, ip, config, vmcsState, sessions, fields, written,
      failedWrites, writeCtx, allocRequests, allocFailedAt, frames, eptRoot,
      eptMap, started, returned, locals, closureResult, result, machine, fx,
      lastRead, rflags, entered, launchResult, running, otherFrames>>

\* ------------------------------------------------------- the instructions
\* One record per statement of a setup step or of launch.
Ins(op, field, src, bits, ref, checked) ==
    [op |-> op, field |-> field, src |-> src, bits |-> bits, ref |-> ref,
     checked |-> checked]

\* vmcs.write_field(field, <literal>)?
W(field, bits) == Ins("write", field, "const", bits, "", TRUE)
\* vmcs.write_field(field, <host register>::read())?
WH(field, reg) == Ins("write", field, "host", {}, reg, TRUE)
\* vmcs.write_field(field, <frame>.start_address().as_u64())?
WFr(field, role) == Ins("write", field, "frame", {}, role, TRUE)
\* the same three without the `?`: the Result is dropped
WFrU(field, role) == Ins("write", field, "frame", {}, role, FALSE)
WLocU(field, local) == Ins("write", field, "local", {}, local, FALSE)
\* alloc.allocate_frame().expect(..) and alloc.allocate_frame().ok_or(..)?
AllocExpect(role) == Ins("alloc", "", "expect", {}, role, TRUE)
AllocOkOr(role, msg) == Ins("alloc", msg, "ok_or", {}, role, TRUE)
\* vmcs.write_with_fixed(field, desired, msr)?
Fixed(field, desired, msr) == Ins("fixed", field, "const", desired, msr, TRUE)
\* vmcs.read_field(field)?
Rd(field) == Ins("read", field, "", {}, "", TRUE)

SetupEptProg_earlyptr == <<
    AllocExpect("ept_pml4_frame"),
    Ins("pml4_new", "", "", {}, "ept_pml4_frame", TRUE),
    AllocExpect("host_frame"),
    Ins("write", "EptPointer", "eptp", {}, "ept_pml4_frame", TRUE),
    Ins("map", "", "const", PlaceholderEntry, "host_frame", TRUE),
    W("VirtualProcessorId", Bits(1)) >>

SetupEptProg == <<
    AllocExpect("ept_pml4_frame"),
    Ins("pml4_new", "", "", {}, "ept_pml4_frame", TRUE),
    AllocExpect("host_frame"),
    Ins("map", "", "const", PlaceholderEntry, "host_frame", TRUE),
    Ins("write", "EptPointer", "eptp", {}, "ept_pml4_frame", TRUE),
    W("VirtualProcessorId", Bits(1)) >>

InitializeHostVmcsProg == <<
    WH("HostCr0", "Cr0"),
    WH("HostCr3", "Cr3"),
    WH("HostCr4", "Cr4"),
    W("HostEsSelector", {}),
    W("HostCsSelector", Bits(57352)),
    W("HostSsSelector", {}),
    W("HostDsSelector", {}),
    W("HostFsSelector", {}),
    W("HostGsSelector", {}),
    W("HostTrSelector", Bits(16)),
    W("HostIa32SysenterCs", {}),
    W("HostIa32SysenterEsp", {}),
    W("HostIa32SysenterEip", {}),
    WH("HostIdtrBase", "IdtrBase"),
    WH("HostGdtrBase", "GdtrBase"),
    WH("HostFsBase", "FsBase"),
    WH("HostGsBase", "GsBase"),
    AllocExpect("tr_base_frame"),
    WFrU("HostTrBase", "tr_base_frame"),
    WFr("HostRsp", "stack"),
    WH("HostIa32Efer", "Efer"),
    WH("HostRip", "vmexit_handler_wrapper") >>

GuestSegments == <<"Es", "Cs", "Ss", "Ds", "Fs", "Gs", "Tr", "Ldtr">>
GuestTables == <<"Idtr", "Gdtr">>

GuestConst(names, suffix, bits) ==
    [i \in 1..Len(names) |-> W("Guest" \o names[i] \o suffix, bits)]

\* lines 154-214: everything initialize_guest_vmcs does before GuestRip
GuestHead ==
    GuestConst(GuestSegments, "Selector", {})
    \o GuestConst(GuestSegments \o GuestTables, "Base", {})
    \o GuestConst(GuestSegments \o GuestTables, "Limit", Bits(65535))
    \o GuestConst(<<"Es", "Ss", "Ds", "Fs", "Gs">>, "ArBytes", Bits(49299))
    \o << W("GuestCsArBytes", Bits(49307)),
          W("GuestLdtrArBytes", Bits(130)),
          W("GuestTrArBytes", Bits(139)),
          W("GuestInterruptibilityInfo", {}),
          W("GuestActivityState", {}),
          W("GuestDr7", {}),
          W("GuestRsp", {}),
          W("VmcsLinkPointer", AllOnes32),
          W("VmcsLinkPointerHigh", AllOnes32),
          W("GuestIa32Efer", {}),
          Ins("rdmsr_cr", "", "", {}, "", TRUE),
          WLocU("GuestCr0", "guest_cr0"),
          WLocU("GuestCr4", "guest_cr4"),
          W("GuestCr3", {}) >>

\* the instruction pointer wired to the first configured image
InitializeGuestVmcsProg_rip ==
    GuestHead
    \o << W("GuestRip", IF config.images = <<>> THEN PlaceholderEntry
                        ELSE config.images[1]) >>

InitializeGuestVmcsProg ==
    GuestHead \o << W("GuestRip", PlaceholderEntry) >>

CtrlTail_samebitmap == <<
    Rd("VmExitControls"),
    Fixed("VmEntryControls", {}, "MSR_IA32_VMX_ENTRY_CTLS"),
    AllocOkOr("vapic", "Failed to allocate VAPIC"),
    WFr("VirtualApicPageAddr", "vapic"),
    W("ExceptionBitmap", AllOnes32),
    Rd("CpuBasedVmExecControl"),
    Rd("SecondaryVmExecControl"),
    AllocOkOr("bitmap_a", "Failed to allocate IO bitmap"),
    AllocOkOr("bitmap_b", "Failed to allocate IO bitmap"),
    WFr("IoBitmapA", "bitmap_a"),
    WFr("IoBitmapB", "bitmap_a"),
    AllocOkOr("vapic_frame", "Failed to allocate VAPIC frame"),
    WFr("VirtualApicPageAddr", "vapic_frame"),
    W("TprThreshold", {}) >>

CtrlTail_secondary == <<
    Rd("VmExitControls"),
    Fixed("VmEntryControls", {}, "MSR_IA32_VMX_ENTRY_CTLS"),
    W("SecondaryVmExecControl", {ENABLE_EPT}),
    AllocOkOr("vapic", "Failed to allocate VAPIC"),
    WFr("VirtualApicPageAddr", "vapic"),
    W("ExceptionBitmap", AllOnes32),
    Rd("CpuBasedVmExecControl"),
    Rd("SecondaryVmExecControl"),
    AllocOkOr("bitmap_a", "Failed to allocate IO bitmap"),
    AllocOkOr("bitmap_b", "Failed to allocate IO bitmap"),
    WFr("IoBitmapA", "bitmap_a"),
    WFr("IoBitmapB", "bitmap_b"),
    AllocOkOr("vapic_frame", "Failed to allocate VAPIC frame"),
    WFr("VirtualApicPageAddr", "vapic_frame"),
    W("TprThreshold", {}) >>

CtrlTail == <<
    Rd("VmExitControls"),
    Fixed("VmEntryControls", {}, "MSR_IA32_VMX_ENTRY_CTLS"),
    AllocOkOr("vapic", "Failed to allocate VAPIC"),
    WFr("VirtualApicPageAddr", "vapic"),
    W("ExceptionBitmap", AllOnes32),
    Rd("CpuBasedVmExecControl"),
    Rd("SecondaryVmExecControl"),
    AllocOkOr("bitmap_a", "Failed to allocate IO bitmap"),
    AllocOkOr("bitmap_b", "Failed to allocate IO bitmap"),
    WFr("IoBitmapA", "bitmap_a"),
    WFr("IoBitmapB", "bitmap_b"),
    AllocOkOr("vapic_frame", "Failed to allocate VAPIC frame"),
    WFr("VirtualApicPageAddr", "vapic_frame"),
    W("TprThreshold", {}) >>

InitializeCtrlVmcsProg_wrongfield ==
    << Fixed("CpuBasedVmExecControl", {ACTIVATE_SECONDARY_CONTROLS},
             "MSR_IA32_VMX_PROCBASED_CTLS"),
       Fixed("PinBasedVmExecControl", {}, "MSR_IA32_VMX_PINBASED_CTLS"),
       Fixed("VmEntryControls", {IA32E_MODE}, "MSR_IA32_VMX_EXIT_CTLS") >>
    \o CtrlTail

InitializeCtrlVmcsProg ==
    << Fixed("CpuBasedVmExecControl", {ACTIVATE_SECONDARY_CONTROLS},
             "MSR_IA32_VMX_PROCBASED_CTLS"),
       Fixed("PinBasedVmExecControl", {}, "MSR_IA32_VMX_PINBASED_CTLS"),
       Fixed("VmExitControls", {IA32E_MODE}, "MSR_IA32_VMX_EXIT_CTLS") >>
    \o CtrlTail

\* the closure passed to with_active_vmcs, in the order it calls the steps
StepOrder_swapped ==
    <<"setup_ept", "initialize_guest_vmcs", "initialize_host_vmcs",
      "initialize_ctrl_vmcs">>

StepOrder ==
    <<"setup_ept", "initialize_host_vmcs", "initialize_guest_vmcs",
      "initialize_ctrl_vmcs">>

StepProg(step) ==
    CASE step = "setup_ept" -> SetupEptProg
      [] step = "initialize_host_vmcs" -> InitializeHostVmcsProg
      [] step = "initialize_guest_vmcs" -> InitializeGuestVmcsProg
      [] step = "initialize_ctrl_vmcs" -> InitializeCtrlVmcsProg

\* launch: activate, the entry instruction, the flag check
LaunchProg_writes ==
    << Ins("activate", "", "", {}, "", TRUE),
       W("GuestRip", PlaceholderEntry),
       Ins("vmlaunch", "", "", {}, "", TRUE),
       Ins("check", "", "", {}, "", TRUE) >>

LaunchProg ==
    << Ins("activate", "", "", {}, "", TRUE),
       Ins("vmlaunch", "", "", {}, "", TRUE),
       Ins("check", "", "", {}, "", TRUE) >>

\* the message launch hands to check_vm_insruction
LaunchFailureMessage_empty == ""

LaunchFailureMessage == "Failed to launch vm"

AllProgs ==
    {SetupEptProg, InitializeHostVmcsProg, InitializeGuestVmcsProg,
     InitializeCtrlVmcsProg}

\* every field the code reads or writes
Fields ==
    {p[i].field : <<p, i>> \in {<<q, j>> \in AllProgs \X (1..64) :
        j <= Len(q) /\ q[j].op \in {"write", "fixed", "read"}}}

Roles ==
    {"vmcs", "stack", "ept_pml4_frame", "host_frame", "ept_pdpt", "ept_pd",
     "ept_pt", "tr_base_frame", "vapic", "bitmap_a", "bitmap_b", "vapic_frame"}

\* ------------------------------------------------------------- the values
NoError == [kind |-> "none", msg |-> ""]
OkResult == [kind |-> "Ok", msg |-> ""]
AllocError(msg) == [kind |-> "AllocError", msg |-> msg]
\* the Err a failed write_field / write_with_fixed yields
FieldError(field) == [kind |-> "FieldError", msg |-> field]
\* the Err a failed read_field yields
FieldReadError(field) == [kind |-> "FieldReadError", msg |-> field]
\* the Err a failed activation of the control structure yields
ActivateError == [kind |-> "ActivateError", msg |-> "vmptrld"]
\* the Err check_vm_insruction yields for a rejected instruction
VmInstructionError(msg) == [kind |-> "VmInstructionError", msg |-> msg]

\* the Err of Vmcs::new when the allocator has no frame for the region
VmcsNewError == AllocError("Failed to allocate vmcs frame")
\* the Err of map_guest_memory when the allocator has no frame for a table
MapGuestMemoryError == AllocError("Failed to allocate ept table frame")

NoMachine == [vmcs |-> 0, stack |-> 0, images |-> <<>>, memory |-> 0, live |-> FALSE]
NoFx ==
    [field |-> "", msr |-> "", desired |-> {}, allowed1 |-> {}, required1 |-> {},
     value |-> {}]
NoRead == [field |-> "", value |-> {}]
\* the locals of initialize_guest_vmcs before the MSRs are read; msr_* keep
\* what the two rdmsr returned, which the code overwrites in place
NoLocals ==
    [guest_cr0 |-> {}, guest_cr4 |-> {}, msr_cr0_fixed0 |-> {},
     msr_cr4_fixed0 |-> {}]

\* ept_pml4_frame.start_address() | 6 | 1 << 6
Eptp_nowalk(root) == root \cup Bits(6) \cup Shl(Bits(1), 6)

\* ept_pml4_frame.start_address() | 6 | (4 - 1) << 3 | 1 << 6
Eptp(root) == root \cup Bits(6) \cup Shl(Bits(4 - 1), 3) \cup Shl(Bits(1), 6)

\* cr0_fixed0 &= !(1 << 0); cr0_fixed0 &= !(1 << 31)
GuestCr0Of_keeppg(cr0_fixed0) == cr0_fixed0 \ {0}

\* cr0_fixed0 &= !(1 << 0); cr0_fixed0 &= !(1 << 31)
GuestCr0Of(cr0_fixed0) == (cr0_fixed0 \ {0}) \ {31}

\* write_with_fixed: (desired & allowed1) | required1
FixedValue_orfirst(desired, cap) == (desired \cup cap.required1) \cap cap.allowed1

FixedValue(desired, cap) == (desired \cap cap.allowed1) \cup cap.required1

\* check_vm_insruction: is the instruction reported as failed
VmInstructionFailed(flags) == CARRY_FLAG \in flags \/ ZERO_FLAG \in flags

\* the intermediate tables map_guest_memory allocates for a first mapping
MapGuestMemoryTables == <<"ept_pdpt", "ept_pd", "ept_pt">>

\* what `vmlaunch; pushfq; popq` can do: enter the guest (the pushfq is then
\* never executed), VMfailInvalid (CF) or VMfailValid (ZF)
VmlaunchOutcomes_fallthrough ==
    {[entered |-> TRUE, resumes |-> TRUE, rflags |-> {1}],
     [entered |-> FALSE, resumes |-> TRUE, rflags |-> {CARRY_FLAG, 1}],
     [entered |-> FALSE, resumes |-> TRUE, rflags |-> {ZERO_FLAG, 1}]}

VmlaunchOutcomes ==
    {[entered |-> TRUE, resumes |-> FALSE, rflags |-> {}],
     [entered |-> FALSE, resumes |-> TRUE, rflags |-> {CARRY_FLAG, 1}],
     [entered |-> FALSE, resumes |-> TRUE, rflags |-> {ZERO_FLAG, 1}]}

\* ------------------------------------------------------------------- Init
Init ==
    /\ pc = "new_vmcs"
    /\ stepNo = 0
    /\ ip = 0
    /\ config \in Configs
    /\ vmcsState = "None"
    /\ sessions = [opened |-> 0, closed |-> 0]
    /\ fields = [f \in Fields |-> {}]
    /\ written = {}
    /\ failedWrites = {}
    /\ writeCtx = {}
    /\ allocRequests = 0
    /\ allocFailedAt = 0
    /\ frames = [r \in Roles |-> 0]
    /\ eptRoot = FALSE
    /\ eptMap = {}
    /\ started = <<>>
    /\ returned = [s \in {StepOrder[i] : i \in 1..Len(StepOrder)} |-> "none"]
    /\ locals = NoLocals
    /\ closureResult = NoError
    /\ result = NoError
    /\ machine = NoMachine
    /\ fx = NoFx
    /\ lastRead = NoRead
    /\ rflags = {}
    /\ entered = FALSE
    /\ launchResult = NoError
    /\ running = FALSE
    /\ otherFrames = {}

\* ------------------------------------------------------- control helpers
InProg == pc \in {"step", "launch"}
CurStep == StepOrder[stepNo]
CurProg == IF pc = "step" THEN StepProg(CurStep) ELSE LaunchProg
AtIns(op) == InProg /\ ip <= Len(CurProg) /\ CurProg[ip].op = op
CurIns == CurProg[ip]

\* go on to the next statement
Continue ==
    /\ ip' = ip + 1
    /\ UNCHANGED <<pc, stepNo, started, returned, closureResult, launchResult>>

\* `?` on an Err: the step (or launch) returns it at once
Raise(err) ==
    IF pc = "step"
    THEN /\ pc' = "close"
         /\ returned' = [returned EXCEPT ![CurStep] = "err"]
         /\ closureResult' = err
         /\ UNCHANGED <<stepNo, ip, started, launchResult>>
    ELSE /\ pc' = "launch_failed"
         /\ launchResult' = err
         /\ UNCHANGED <<stepNo, ip, started, returned, closureResult>>

\* expect / unreachable!: the panic handler takes over and never returns
Panic ==
    /\ pc' = "panicked"
    /\ UNCHANGED <<stepNo, ip, started, returned, closureResult, launchResult>>

\* the value a write_field statement passes
Eval(ins) ==
    CASE ins.src = "const" -> ins.bits
      [] ins.src = "host" -> HostReg(ins.ref)
      [] ins.src = "frame" -> FrameAddr(frames[ins.ref])
      [] ins.src = "local" -> locals[ins.ref]
      [] ins.src = "eptp" -> Eptp(FrameAddr(frames[ins.ref]))

\* ---------------------------------------------------------------- new
\* line 47: vmcs::Vmcs::new(alloc)?
VmcsNew ==
    /\ pc = "new_vmcs"
    /\ allocRequests' = allocRequests + 1
    /\ \E ok \in BOOLEAN :
          IF ok
          THEN /\ frames' = [frames EXCEPT !["vmcs"] = allocRequests + 1]
               /\ vmcsState' = "Inactive"
               /\ pc' = "new_stack"
               /\ UNCHANGED <<allocFailedAt, result>>
          ELSE /\ allocFailedAt' = allocRequests + 1
               /\ result' = VmcsNewError
               /\ pc' = "failed"
               /\ UNCHANGED <<frames, vmcsState>>
    /\ UNCHANGED <<stepNo, ip, config, otherFrames, sessions, fields, written, failedWrites,
                   writeCtx, eptRoot, eptMap, started, returned, locals,
                   closureResult, machine, fx, lastRead, rflags, entered,
                   launchResult, running>>

\* lines 49-51: the host stack frame
AllocStack ==
    /\ pc = "new_stack"
    /\ allocRequests' = allocRequests + 1
    /\ \E ok \in BOOLEAN :
          IF ok
          THEN /\ frames' = [frames EXCEPT !["stack"] = allocRequests + 1]
               /\ pc' = "open"
               /\ UNCHANGED <<allocFailedAt, result>>
          ELSE /\ allocFailedAt' = allocRequests + 1
               /\ result' = AllocError("Failed to allocate VM stack")
               /\ pc' = "failed"
               /\ UNCHANGED frames
    /\ UNCHANGED <<stepNo, ip, config, otherFrames, vmcsState, sessions, fields, written,
                   failedWrites, writeCtx, eptRoot, eptMap, started, returned,
                   locals, closureResult, machine, fx, lastRead, rflags,
                   entered, launchResult, running>>

\* line 53: with_active_vmcs opens the configuration session and calls the
\* closure, whose first statement is the first setup step
WithActiveVmcsEnter ==
    /\ pc = "open"
    /\ \E ok \in BOOLEAN :
          IF ok
          THEN /\ vmcsState' = "TemporarilyActive"
               /\ sessions' = [sessions EXCEPT !.opened = @ + 1]
               /\ pc' = "step"
               /\ stepNo' = 1
               /\ ip' = 1
               /\ started' = Append(started, StepOrder[1])
               /\ UNCHANGED result
          ELSE /\ result' = ActivateError
               /\ pc' = "failed"
               /\ UNCHANGED <<vmcsState, sessions, stepNo, ip, started>>
    /\ UNCHANGED <<config, otherFrames, fields, written, failedWrites, writeCtx,
                   allocRequests, allocFailedAt, frames, eptRoot, eptMap,
                   returned, locals, closureResult, machine, fx, lastRead,
                   rflags, entered, launchResult, running>>

\* a setup step reaches its final Ok(..): the closure calls the next step,
\* or returns Ok(()) after the last one (lines 54-58)
StepReturn ==
    /\ pc = "step"
    /\ ip = Len(CurProg) + 1
    /\ returned' = [returned EXCEPT ![CurStep] = "ok"]
    /\ IF stepNo < Len(StepOrder)
       THEN /\ stepNo' = stepNo + 1
            /\ ip' = 1
            /\ started' = Append(started, StepOrder[stepNo + 1])
            /\ UNCHANGED <<pc, closureResult>>
       ELSE /\ pc' = "close"
            /\ closureResult' = OkResult
            /\ UNCHANGED <<stepNo, ip, started>>
    /\ UNCHANGED <<config, otherFrames, vmcsState, sessions, fields, written, failedWrites,
                   writeCtx, allocRequests, allocFailedAt, frames, eptRoot,
                   eptMap, locals, result, machine, fx, lastRead, rflags,
                   entered, launchResult, running>>

\* line 59: the closure has returned; the session ends, and `?` returns an Err
WithActiveVmcsExit ==
    /\ pc = "close"
    /\ vmcsState' = "Inactive"
    /\ sessions' = [sessions EXCEPT !.closed = @ + 1]
    /\ IF closureResult.kind = "Ok"
       THEN pc' = "ret" /\ UNCHANGED result
       ELSE pc' = "failed" /\ result' = closureResult
    /\ UNCHANGED <<stepNo, ip, config, otherFrames, fields, written, failedWrites, writeCtx,
                   allocRequests, allocFailedAt, frames, eptRoot, eptMap,
                   started, returned, locals, closureResult, machine, fx,
                   lastRead, rflags, entered, launchResult, running>>

\* lines 61-65: Ok(Self { vmcs, config, stack })
NewReturn ==
    /\ pc = "ret"
    /\ machine' = [vmcs |-> frames["vmcs"], stack |-> frames["stack"],
                   images |-> config.images, memory |-> config.memory,
                   live |-> TRUE]
    /\ result' = OkResult
    /\ pc' = "built"
    /\ UNCHANGED <<stepNo, ip, config, otherFrames, vmcsState, sessions, fields, written,
                   failedWrites, writeCtx, allocRequests, allocFailedAt,
                   frames, eptRoot, eptMap, started, returned, locals,
                   closureResult, fx, lastRead, rflags, entered, launchResult,
                   running>>

\* ------------------------------------------------- statements of a step
\* alloc.allocate_frame() followed by .expect(..) or .ok_or(..)?
AllocFrame ==
    /\ AtIns("alloc")
    /\ allocRequests' = allocRequests + 1
    /\ \E ok \in BOOLEAN :
          IF ok
          THEN /\ frames' = [frames EXCEPT ![CurIns.ref] = allocRequests + 1]
               /\ UNCHANGED allocFailedAt
               /\ Continue
          ELSE /\ allocFailedAt' = allocRequests + 1
               /\ UNCHANGED frames
               /\ IF CurIns.src = "expect"
                  THEN Panic
                  ELSE Raise(AllocError(CurIns.field))
    /\ UNCHANGED <<config, otherFrames, vmcsState, sessions, fields, written, failedWrites,
                   writeCtx, eptRoot, eptMap, locals, result, machine, fx,
                   lastRead, rflags, entered, running>>

\* lines 78-79: EptPml4Table::new(&mut ept_pml4_frame)
Pml4New ==
    /\ AtIns("pml4_new")
    /\ eptRoot' = TRUE
    /\ Continue
    /\ UNCHANGED <<config, otherFrames, vmcsState, sessions, fields, written, failedWrites,
                   writeCtx, allocRequests, allocFailedAt, frames, eptMap,
                   locals, result, machine, fx, lastRead, rflags, entered,
                   running>>

\* lines 85-91: memory::map_guest_memory(alloc, &mut ept_pml4, gpa, frame, false)?
\* got: how many of the missing tables the allocator still had a frame for
MapGuestMemory ==
    /\ AtIns("map")
    /\ \E got \in 0..Len(MapGuestMemoryTables) :
          /\ frames' = [r \in Roles |->
                          IF \E k \in 1..got : MapGuestMemoryTables[k] = r
                          THEN allocRequests
                               + (CHOOSE k \in 1..got : MapGuestMemoryTables[k] = r)
                          ELSE frames[r]]
          /\ IF got = Len(MapGuestMemoryTables)
             THEN /\ allocRequests' = allocRequests + got
                  /\ eptMap' = eptMap \cup {<<CurIns.bits, frames[CurIns.ref]>>}
                  /\ UNCHANGED allocFailedAt
                  /\ Continue
             ELSE /\ allocRequests' = allocRequests + got + 1
                  /\ allocFailedAt' = allocRequests + got + 1
                  /\ UNCHANGED eptMap
                  /\ Raise(MapGuestMemoryError)
    /\ UNCHANGED <<config, otherFrames, vmcsState, sessions, fields, written, failedWrites,
                   writeCtx, eptRoot, locals, result, machine, fx, lastRead,
                   rflags, entered, running>>

\* vmcs.write_field(field, value), with or without `?`
WriteField ==
    /\ AtIns("write")
    /\ writeCtx' = writeCtx \cup {<<vmcsState, pc>>}
    /\ \E ok \in BOOLEAN :
          IF ok
          THEN /\ fields' = [fields EXCEPT ![CurIns.field] = Eval(CurIns)]
               /\ written' = written \cup {CurIns.field}
               /\ UNCHANGED failedWrites
               /\ Continue
          ELSE /\ failedWrites' = failedWrites \cup {CurIns.field}
               /\ UNCHANGED <<fields, written>>
               /\ IF CurIns.checked
                  THEN Raise(FieldError(CurIns.field))
                  ELSE Continue
    /\ UNCHANGED <<config, otherFrames, vmcsState, sessions, allocRequests, allocFailedAt,
                   frames, eptRoot, eptMap, locals, result, machine, fx,
                   lastRead, rflags, entered, running>>

\* vmcs.write_with_fixed(field, desired, msr)?: the capability MSR is read,
\* the desired pattern adjusted and the adjusted value written
WriteWithFixed ==
    /\ AtIns("fixed")
    /\ writeCtx' = writeCtx \cup {<<vmcsState, pc>>}
    /\ \E cap \in CapValues(CurIns.ref), ok \in BOOLEAN :
          /\ fx' = [field |-> CurIns.field, msr |-> CurIns.ref,
                    desired |-> CurIns.bits, allowed1 |-> cap.allowed1,
                    required1 |-> cap.required1,
                    value |-> FixedValue(CurIns.bits, cap)]
          /\ IF ok
             THEN /\ fields' = [fields EXCEPT
                                  ![CurIns.field] = FixedValue(CurIns.bits, cap)]
                  /\ written' = written \cup {CurIns.field}
                  /\ UNCHANGED failedWrites
                  /\ Continue
             ELSE /\ failedWrites' = failedWrites \cup {CurIns.field}
                  /\ UNCHANGED <<fields, written>>
                  /\ Raise(FieldError(CurIns.field))
    /\ UNCHANGED <<config, otherFrames, vmcsState, sessions, allocRequests, allocFailedAt,
                   frames, eptRoot, eptMap, locals, result, machine, lastRead,
                   rflags, entered, running>>

\* vmcs.read_field(field)?
ReadField ==
    /\ AtIns("read")
    /\ \E ok \in BOOLEAN :
          IF ok
          THEN /\ lastRead' = [field |-> CurIns.field,
                               value |-> fields[CurIns.field]]
               /\ Continue
          ELSE /\ UNCHANGED lastRead
               /\ Raise(FieldReadError(CurIns.field))
    /\ UNCHANGED <<config, otherFrames, vmcsState, sessions, fields, written, failedWrites,
                   writeCtx, allocRequests, allocFailedAt, frames, eptRoot,
                   eptMap, locals, result, machine, fx, rflags, entered,
                   running>>

\* lines 204-210: the two fixed-bit MSRs are read and CR0 adjusted
ReadCrFixedFrom(cr0Values, cr4Values) ==
    /\ AtIns("rdmsr_cr")
    /\ \E cr0_fixed0 \in cr0Values, cr4_fixed0 \in cr4Values :
          locals' = [guest_cr0 |-> GuestCr0Of(cr0_fixed0),
                     guest_cr4 |-> cr4_fixed0,
                     msr_cr0_fixed0 |-> cr0_fixed0,
                     msr_cr4_fixed0 |-> cr4_fixed0]
    /\ Continue
    /\ UNCHANGED <<config, otherFrames, vmcsState, sessions, fields, written, failedWrites,
                   writeCtx, allocRequests, allocFailedAt, frames, eptRoot,
                   eptMap, result, machine, fx, lastRead, rflags, entered,
                   running>>

ReadCrFixed == ReadCrFixedFrom(Cr0Fixed0Values, Cr4Fixed0Values)

\* ------------------------------------------------------------- launch
\* line 311: launch(self, vmx) consumes the machine
Launch_borrow ==
    /\ pc \in {"built", "launch_failed"}
    /\ machine.live
    /\ machine' = machine
    /\ pc' = "launch"
    /\ ip' = 1
    /\ UNCHANGED <<stepNo, config, otherFrames, vmcsState, sessions, fields, written,
                   failedWrites, writeCtx, allocRequests, allocFailedAt,
                   frames, eptRoot, eptMap, started, returned, locals,
                   closureResult, result, fx, lastRead, rflags, entered,
                   launchResult, running>>

Launch ==
    /\ pc \in {"built", "launch_failed"}
    /\ machine.live
    /\ machine' = [machine EXCEPT !.live = FALSE]
    /\ pc' = "launch"
    /\ ip' = 1
    /\ UNCHANGED <<stepNo, config, otherFrames, vmcsState, sessions, fields, written,
                   failedWrites, writeCtx, allocRequests, allocFailedAt,
                   frames, eptRoot, eptMap, started, returned, locals,
                   closureResult, result, fx, lastRead, rflags, entered,
                   launchResult, running>>

\* line 317: self.vmcs.activate(vmx)?
Activate_unchecked ==
    /\ AtIns("activate")
    /\ \E ok \in BOOLEAN :
          IF ok
          THEN vmcsState' = "Active" /\ Continue
          ELSE UNCHANGED vmcsState /\ Continue
    /\ UNCHANGED <<config, otherFrames, sessions, fields, written, failedWrites, writeCtx,
                   allocRequests, allocFailedAt, frames, eptRoot, eptMap,
                   locals, result, machine, fx, lastRead, rflags, entered,
                   running>>

Activate ==
    /\ AtIns("activate")
    /\ \E ok \in BOOLEAN :
          IF ok
          THEN vmcsState' = "Active" /\ Continue
          ELSE UNCHANGED vmcsState /\ Raise(ActivateError)
    /\ UNCHANGED <<config, otherFrames, sessions, fields, written, failedWrites, writeCtx,
                   allocRequests, allocFailedAt, frames, eptRoot, eptMap,
                   locals, result, machine, fx, lastRead, rflags, entered,
                   running>>

\* lines 319-326: vmlaunch; pushfq; popq
Vmlaunch ==
    /\ AtIns("vmlaunch")
    /\ \E o \in VmlaunchOutcomes :
          /\ entered' = o.entered
          /\ IF o.resumes
             THEN rflags' = o.rflags /\ Continue
             ELSE /\ pc' = "in_guest"
                  /\ UNCHANGED <<rflags, stepNo, ip, started, returned,
                                 closureResult, launchResult>>
    /\ UNCHANGED <<config, otherFrames, vmcsState, sessions, fields, written, failedWrites,
                   writeCtx, allocRequests, allocFailedAt, frames, eptRoot,
                   eptMap, locals, result, machine, fx, lastRead, running>>

\* lines 328-330: check_vm_insruction(rflags, msg)?; unreachable!()
CheckVmInstruction ==
    /\ AtIns("check")
    /\ IF VmInstructionFailed(rflags)
       THEN Raise(VmInstructionError(LaunchFailureMessage))
       ELSE Panic
    /\ UNCHANGED <<config, otherFrames, vmcsState, sessions, fields, written, failedWrites,
                   writeCtx, allocRequests, allocFailedAt, frames, eptRoot,
                   eptMap, locals, result, machine, fx, lastRead, rflags,
                   entered, running>>

Next ==
    \/ VmcsNew
    \/ AllocStack
    \/ WithActiveVmcsEnter
    \/ AllocFrame
    \/ Pml4New
    \/ MapGuestMemory
    \/ WriteField
    \/ WriteWithFixed
    \/ ReadField
    \/ ReadCrFixed
    \/ StepReturn
    \/ WithActiveVmcsExit
    \/ NewReturn
    \/ Launch
    \/ Activate
    \/ Vmlaunch
    \/ CheckVmInstruction

Spec == Init /\ [][Next]_vars

\* ------------------------------------------- the constrained write alone
\* the bit positions the masks and the desired pattern range over
FixedBits == 0..(FixedWidth - 1)

InitFixed ==
    /\ pc = "fixed_call"
    /\ stepNo = 0
    /\ ip = 0
    /\ config = [images |-> <<>>, memory |-> 4]
    /\ vmcsState = "None"
    /\ sessions = [opened |-> 0, closed |-> 0]
    /\ fields = [f \in Fields |-> {}]
    /\ written = {}
    /\ failedWrites = {}
    /\ writeCtx = {}
    /\ allocRequests = 0
    /\ allocFailedAt = 0
    /\ frames = [r \in Roles |-> 0]
    /\ eptRoot = FALSE
    /\ eptMap = {}
    /\ started = <<>>
    /\ returned = [s \in {StepOrder[i] : i \in 1..Len(StepOrder)} |-> "none"]
    /\ locals = NoLocals
    /\ closureResult = NoError
    /\ result = NoError
    /\ machine = NoMachine
    /\ fx \in [field : {""}, msr : {""}, desired : SUBSET FixedBits,
               allowed1 : SUBSET FixedBits, required1 : SUBSET FixedBits,
               value : {{}}]
    /\ lastRead = NoRead
    /\ rflags = {}
    /\ entered = FALSE
    /\ launchResult = NoError
    /\ running = FALSE
    /\ otherFrames = {}

\* the adjusted value write_with_fixed computes for the drawn operands
ApplyFixed ==
    /\ pc = "fixed_call"
    /\ fx' = [fx EXCEPT !.value =
                FixedValue(fx.desired, [allowed1 |-> fx.allowed1,
                                        required1 |-> fx.required1])]
    /\ pc' = "fixed_done"
    /\ UNCHANGED <<stepNo, ip, config, otherFrames, vmcsState, sessions, fields, written,
                   failedWrites, writeCtx, allocRequests, allocFailedAt,
                   frames, eptRoot, eptMap, started, returned, locals,
                   closureResult, result, machine, lastRead, rflags, entered,
                   launchResult, running>>

NextFixed == ApplyFixed

SpecFixed == InitFixed /\ [][NextFixed]_vars

\* --------------------------------------------------- a second machine
\* the caller keeps the machine it was given and calls new again, with the
\* same allocator and an equivalent configuration
NewAgain ==
    /\ pc = "built"
    /\ machine.live
    /\ otherFrames = {}
    /\ otherFrames' = {frames[r] : r \in Roles} \ {0}
    /\ pc' = "new_vmcs"
    /\ stepNo' = 0
    /\ ip' = 0
    /\ vmcsState' = "None"
    /\ sessions' = [opened |-> 0, closed |-> 0]
    /\ fields' = [f \in Fields |-> {}]
    /\ written' = {}
    /\ failedWrites' = {}
    /\ writeCtx' = {}
    /\ frames' = [r \in Roles |-> 0]
    /\ eptRoot' = FALSE
    /\ eptMap' = {}
    /\ started' = <<>>
    /\ returned' = [s \in DOMAIN returned |-> "none"]
    /\ locals' = [l \in DOMAIN locals |-> {}]
    /\ closureResult' = NoError
    /\ result' = NoError
    /\ machine' = NoMachine
    /\ fx' = NoFx
    /\ lastRead' = NoRead
    /\ UNCHANGED <<config, allocRequests, allocFailedAt, rflags, entered,
                   launchResult, running>>

NextTwo == Next \/ NewAgain

SpecTwo == Init /\ [][NextTwo]_vars

\* ------------------------------------------- the EPT pointer for any root
\* the number of frames the allocator has handed out before new is called
MaxFrameBase == 30

\* setup_ept at line 93: the root table, the leaf frame and the table chain
\* exist; the allocator had handed out base frames before this construction
InitEptp ==
    \E base \in 0..MaxFrameBase :
        /\ pc = "step"
        /\ stepNo = 1
        /\ ip = 5
        /\ config = [images |-> <<>>, memory |-> 4]
        /\ vmcsState = "TemporarilyActive"
        /\ sessions = [opened |-> 1, closed |-> 0]
        /\ fields = [f \in Fields |-> {}]
        /\ written = {}
        /\ failedWrites = {}
        /\ writeCtx = {}
        /\ allocRequests = base + 7
        /\ allocFailedAt = 0
        /\ frames = [r \in Roles |->
                       CASE r = "vmcs" -> base + 1
                         [] r = "stack" -> base + 2
                         [] r = "ept_pml4_frame" -> base + 3
                         [] r = "host_frame" -> base + 4
                         [] r = "ept_pdpt" -> base + 5
                         [] r = "ept_pd" -> base + 6
                         [] r = "ept_pt" -> base + 7
                         [] OTHER -> 0]
        /\ eptRoot = TRUE
        /\ eptMap = {<<PlaceholderEntry, base + 4>>}
        /\ started = <<"setup_ept">>
        /\ returned = [s \in {StepOrder[i] : i \in 1..Len(StepOrder)} |-> "none"]
        /\ locals = NoLocals
        /\ closureResult = NoError
        /\ result = NoError
        /\ machine = NoMachine
        /\ fx = NoFx
        /\ lastRead = NoRead
        /\ rflags = {}
        /\ entered = FALSE
        /\ launchResult = NoError
        /\ running = FALSE
        /\ otherFrames = {}

\* lines 98-99: the two field writes that end setup_ept
WriteEptFields == stepNo = 1 /\ WriteField

NextEptp == WriteEptFields

SpecEptp == InitEptp /\ [][NextEptp]_vars

\* --------------------------------- guest CR0/CR4 for any fixed-0 MSR values
\* the bits the two fixed-0 MSRs range over (PE, NE-side bits, PG; VMXE side)
Cr0FixedBits == {0, 1, 5, 31}
Cr4FixedBits == {5, 13}

\* the position of the MSR reads in initialize_guest_vmcs
CrIp == CHOOSE i \in 1..Len(GuestHead) : GuestHead[i].op = "rdmsr_cr"

\* the statements executed before the MSR reads when nothing has failed
BeforeCr ==
    SetupEptProg \o InitializeHostVmcsProg \o SubSeq(GuestHead, 1, CrIp - 1)

\* the last write of field f among the statements before the MSR reads
LastWrite(f) ==
    CHOOSE i \in 1..Len(BeforeCr) :
        /\ BeforeCr[i].op = "write" /\ BeforeCr[i].field = f
        /\ \A j \in (i + 1)..Len(BeforeCr) :
              ~(BeforeCr[j].op = "write" /\ BeforeCr[j].field = f)

\* initialize_guest_vmcs at line 203, every earlier statement having succeeded
InitCr ==
    /\ pc = "step"
    /\ stepNo = 3
    /\ ip = CrIp
    /\ config = [images |-> <<>>, memory |-> 4]
    /\ vmcsState = "TemporarilyActive"
    /\ sessions = [opened |-> 1, closed |-> 0]
    /\ frames = [r \in Roles |->
                   CASE r = "vmcs" -> 1
                     [] r = "stack" -> 2
                     [] r = "ept_pml4_frame" -> 3
                     [] r = "host_frame" -> 4
                     [] r = "ept_pdpt" -> 5
                     [] r = "ept_pd" -> 6
                     [] r = "ept_pt" -> 7
                     [] r = "tr_base_frame" -> 8
                     [] OTHER -> 0]
    /\ locals = NoLocals
    /\ written = {BeforeCr[i].field : i \in {j \in 1..Len(BeforeCr) : BeforeCr[j].op = "write"}}
    /\ fields = [f \in Fields |->
                   IF f \in written THEN Eval(BeforeCr[LastWrite(f)]) ELSE {}]
    /\ failedWrites = {}
    /\ writeCtx = {<<"TemporarilyActive", "step">>}
    /\ allocRequests = 8
    /\ allocFailedAt = 0
    /\ eptRoot = TRUE
    /\ eptMap = {<<PlaceholderEntry, 4>>}
    /\ started = <<"setup_ept", "initialize_host_vmcs", "initialize_guest_vmcs">>
    /\ returned = [s \in {StepOrder[i] : i \in 1..Len(StepOrder)} |->
                     IF s \in {"setup_ept", "initialize_host_vmcs"}
                     THEN "ok" ELSE "none"]
    /\ closureResult = NoError
    /\ result = NoError
    /\ machine = NoMachine
    /\ fx = NoFx
    /\ lastRead = NoRead
    /\ rflags = {}
    /\ entered = FALSE
    /\ launchResult = NoError
    /\ running = FALSE
    /\ otherFrames = {}

\* lines 204-207 for any value the two MSRs may hold
ReadCrFixedAny == ReadCrFixedFrom(SUBSET Cr0FixedBits, SUBSET Cr4FixedBits)

\* lines 211-212: the two unchecked writes of the adjusted values
WriteCrFields ==
    /\ stepNo = 3
    /\ ip \in {CrIp + 1, CrIp + 2}
    /\ WriteField

NextCr == ReadCrFixedAny \/ WriteCrFields

SpecCr == InitCr /\ [][NextCr]_vars

\* ------------------------------ a control structure that is not all zero
\* what SecondaryVmExecControl may hold before new runs (bit 7: another
\* secondary control, left by the processor or by earlier use of the region)
SecondaryPrior == {{}, {7}}

InitSecondary ==
    /\ pc = "new_vmcs"
    /\ stepNo = 0
    /\ ip = 0
    /\ config = [images |-> <<>>, memory |-> 4]
    /\ vmcsState = "None"
    /\ sessions = [opened |-> 0, closed |-> 0]
    /\ fields \in {[f \in Fields |->
                     IF f = "SecondaryVmExecControl" THEN prior ELSE {}] :
                  prior \in SecondaryPrior}
    /\ written = {}
    /\ failedWrites = {}
    /\ writeCtx = {}
    /\ allocRequests = 0
    /\ allocFailedAt = 0
    /\ frames = [r \in Roles |-> 0]
    /\ eptRoot = FALSE
    /\ eptMap = {}
    /\ started = <<>>
    /\ returned = [s \in {StepOrder[i] : i \in 1..Len(StepOrder)} |-> "none"]
    /\ locals = NoLocals
    /\ closureResult = NoError
    /\ result = NoError
    /\ machine = NoMachine
    /\ fx = NoFx
    /\ lastRead = NoRead
    /\ rflags = {}
    /\ entered = FALSE
    /\ launchResult = NoError
    /\ running = FALSE
    /\ otherFrames = {}

SpecSecondary == InitSecondary /\ [][Next]_vars

\* =============================================================== claims
SetupEpt == "setup_ept"
HostStep == "initialize_host_vmcs"
GuestStep == "initialize_guest_vmcs"
CtrlStep == "initialize_ctrl_vmcs"

\* new has returned (or will never return)
NewOver == pc \in {"failed", "built", "panicked"}

\* C1: the setup steps are entered in the order EPT setup, host-state
\* capture, guest-state initialization, execution-control programming,
\* all inside the one configuration session; a step is entered only after
\* the one before it has returned Ok, and none is entered after a failure.
C1_StrictOrder ==
    /\ Len(started) <= 4
    /\ \A i \in 1..Len(started) :
          started[i] = <<SetupEpt, HostStep, GuestStep, CtrlStep>>[i]
    /\ \A i \in 1..Len(started) :
          /\ i > 1 => returned[started[i - 1]] = "ok"
          /\ i < Len(started) => returned[started[i]] = "ok"
    /\ \A s \in DOMAIN returned :
          returned[s] # "none" => \E i \in 1..Len(started) : started[i] = s
    /\ sessions.opened <= 1
    /\ started # <<>> => sessions.opened = 1
    /\ pc = "step" => vmcsState = "TemporarilyActive" /\ sessions.closed = 0

\* all four steps have run and the last has returned Ok
C1_Witness ==
    /\ started = <<SetupEpt, HostStep, GuestStep, CtrlStep>>
    /\ returned[CtrlStep] = "ok"

\* C2: once a field write has failed during new, new returns an error (the
\* error of a failed write, when it is a field-write error) and no machine.
C2_AllOrNothing ==
    (NewOver /\ pc # "panicked" /\ failedWrites # {}) =>
        /\ pc = "failed"
        /\ result.kind # "Ok"
        /\ result.kind = "FieldError" => result.msg \in failedWrites
        /\ ~machine.live

\* C3: when the allocator fails on its N-th request, new returns an
\* allocation error as a value (no panic) and asks for no further frame.
C3_AllocFailureReturned ==
    allocFailedAt # 0 =>
        /\ pc \in {"close", "failed"}
        /\ pc = "failed" => result.kind = "AllocError"
        /\ allocRequests = allocFailedAt
        /\ ~machine.live

\* C4: every field write is attempted inside the configuration session
\* (control structure TemporarilyActive, in a setup step), that session is
\* closed before launch activates the structure, and launch writes nothing.
C4_WritesInSession ==
    /\ writeCtx \subseteq {<<"TemporarilyActive", "step">>}
    /\ vmcsState = "Active" => sessions = [opened |-> 1, closed |-> 1]
    /\ pc \in {"launch", "launch_failed", "in_guest"} =>
          sessions = [opened |-> 1, closed |-> 1]

\* launch has activated a structure whose fields were written
C4_Witness == vmcsState = "Active" /\ "GuestRip" \in written /\ writeCtx # {}

\* C5: when new is over, on every path, the control structure (if one was
\* allocated) is Inactive.
C5_InactiveWhenOver == (NewOver /\ vmcsState # "None") => vmcsState = "Inactive"

\* C6: when the carry or the zero flag is set after the entry instruction,
\* launch returns a VM-instruction error with a non-empty description and
\* reaches neither the guest nor the code after the check.
C6_RejectedEntry ==
    (CARRY_FLAG \in rflags \/ ZERO_FLAG \in rflags) =>
        /\ ~entered
        /\ pc \in {"launch", "launch_failed"}
        /\ pc = "launch" => ip = 3 /\ launchResult = NoError
        /\ pc = "launch_failed" =>
              /\ launchResult.kind = "VmInstructionError"
              /\ launchResult.msg # ""

\* launch has returned the error of a rejected entry
C6_Witness == pc = "launch_failed" /\ ZERO_FLAG \in rflags

\* C7: once the entry instruction is accepted, control is in the guest:
\* launch has returned nothing, no VirtualMachineRunning exists and no host
\* statement after the entry instruction has run.
C7_AcceptedEntryDiverges ==
    /\ entered => pc = "in_guest" /\ launchResult = NoError /\ rflags = {}
    /\ ~running

\* the guest has been entered
C7_Witness == entered /\ vmcsState = "Active"

\* the constrained write has been applied to the drawn operands
FixedDone == pc = "fixed_done"

\* C8 as stated: required bits set, forbidden bits clear, the rest as desired.
C8_Original ==
    FixedDone =>
        \A b \in 0..63 :
            /\ b \in fx.required1 => b \in fx.value
            /\ b \notin fx.allowed1 => b \notin fx.value
            /\ (b \notin fx.required1 /\ b \in fx.allowed1) =>
                  (b \in fx.value <=> b \in fx.desired)

\* C8, amended: every required bit is set; every forbidden bit that is not
\* also required is clear; every bit that is allowed and not required
\* equals the desired bit.
C8_RequiredWins ==
    FixedDone =>
        \A b \in 0..63 :
            /\ b \in fx.required1 => b \in fx.value
            /\ (b \notin fx.allowed1 /\ b \notin fx.required1) => b \notin fx.value
            /\ (b \notin fx.required1 /\ b \in fx.allowed1) =>
                  (b \in fx.value <=> b \in fx.desired)

\* a mixed pair with a bit both required and forbidden, and a desired bit kept
C8_Witness ==
    /\ FixedDone
    /\ fx.required1 \ fx.allowed1 # {}
    /\ (fx.desired \cap fx.allowed1) \ fx.required1 # {}
    /\ fx.desired \ fx.allowed1 # {}

\* the exit controls have just been written with the IA32E_MODE bit desired
\* against an exit-controls capability of allowed1 = 0, and read back
ExitReadBack ==
    /\ lastRead.field = "VmExitControls"
    /\ fx.msr = "MSR_IA32_VMX_EXIT_CTLS"
    /\ IA32E_MODE \in fx.desired
    /\ fx.allowed1 = {}

\* C9 as stated: the read-back value has the IA32E_MODE bit.
C9_Original == ExitReadBack => IA32E_MODE \in lastRead.value

\* C9, amended: it has the bit when the capability also requires the bit.
C9_RequiredBitReadsBack ==
    (ExitReadBack /\ IA32E_MODE \in fx.required1) => IA32E_MODE \in lastRead.value

C9_Witness == ExitReadBack /\ IA32E_MODE \in fx.required1

MyFrames == {frames[r] : r \in Roles} \ {0}

\* the fields that hold a frame address, once written
FrameFields ==
    {"EptPointer", "HostTrBase", "HostRsp", "IoBitmapA", "IoBitmapB",
     "VirtualApicPageAddr"} \cap written

\* the frame address a field holds (low 12 bits are flags)
FrameOf(f) == fields[f] \ (0..11)

\* C11: with an allocator that never hands a frame out twice, no frame of a
\* second machine is a frame of the first, and within a machine no frame
\* serves two roles: the roles' frames differ pairwise, every frame-valued
\* field names a frame of this machine, and no two such fields name the same.
C11_NoAliasing ==
    /\ MyFrames \cap otherFrames = {}
    /\ \A r1, r2 \in Roles :
          (r1 # r2 /\ frames[r1] # 0) => frames[r1] # frames[r2]
    /\ FrameFields # {} =>
          LET mine == {FrameAddr(n) : n \in MyFrames}
          IN  \A f \in FrameFields : FrameOf(f) \in mine
    /\ \A f1, f2 \in FrameFields : f1 # f2 => FrameOf(f1) # FrameOf(f2)
    /\ \A m \in eptMap : m[2] = frames["host_frame"] /\ m[2] \notin otherFrames

\* a second machine has been built while the first is still held
C11_Witness ==
    /\ otherFrames # {}
    /\ result.kind = "Ok"
    /\ Cardinality(MyFrames) = Cardinality(Roles)
    /\ Cardinality(otherFrames) = Cardinality(Roles)

\* the fields the EPT setup programs
EptFields == {"EptPointer", "VirtualProcessorId"}

\* map_guest_memory returned Err: the leaf frame exists, no mapping was made
MapFailed ==
    /\ returned[SetupEpt] = "err"
    /\ frames["host_frame"] # 0
    /\ eptMap = {}

\* C12: a write of EptPointer or VirtualProcessorId is attempted only once
\* the root table exists, every table frame of the chain has been obtained
\* and the initial mapping is in place; when the mapping fails neither field
\* is written or attempted, the pointer field keeps its prior value, and new
\* returns the mapping's error and no machine.
C12_PointerAfterChain ==
    /\ EptFields \cap (written \cup failedWrites) # {} =>
          /\ eptRoot
          /\ eptMap = {<<PlaceholderEntry, frames["host_frame"]>>}
          /\ \A k \in 1..Len(MapGuestMemoryTables) :
                frames[MapGuestMemoryTables[k]] # 0
    /\ MapFailed =>
          /\ EptFields \cap (written \cup failedWrites) = {}
          /\ fields["EptPointer"] = {}
          /\ closureResult = MapGuestMemoryError
          /\ NewOver => pc = "failed" /\ result = MapGuestMemoryError
                        /\ ~machine.live

\* new has returned the mapping's error with part of the chain allocated
C12_Witness ==
    /\ pc = "failed"
    /\ MapFailed
    /\ frames["ept_pdpt"] # 0
    /\ frames["ept_pd"] = 0

\* C13: launch takes the machine by value: a launch starts only from a
\* machine the caller still holds and leaves the caller without it, and once
\* a launch has returned an error no further launch, activation or field
\* write happens on that machine or its control structure.
C13_LaunchedAtMostOnce ==
    [][/\ (pc # "launch" /\ pc' = "launch") =>
             /\ machine.live
             /\ ~machine'.live
             /\ launchResult = NoError
       /\ pc \in {"launch", "launch_failed", "in_guest"} => ~machine'.live
       /\ pc = "launch_failed" =>
             /\ pc' = "launch_failed"
             /\ vmcsState' = vmcsState
             /\ fields' = fields
             /\ written' = written
             /\ failedWrites' = failedWrites
             /\ launchResult' = launchResult]_vars

\* a launch has returned an error and the machine is gone
C13_Witness ==
    /\ pc = "launch_failed"
    /\ launchResult # NoError
    /\ result.kind = "Ok"
    /\ ~machine.live

\* C14: once HostRsp is written it holds the top of the stack frame the
\* machine owns, i.e. the frame's start address plus one 4096-byte page
\* (the start address of the next frame number).
C14_HostRspTop ==
    "HostRsp" \in written =>
        fields["HostRsp"] = FrameAddr(frames["stack"] + 1)

\* C15: for every root-table frame, the value written to EptPointer has low
\* 12 bits 0x5E (bits 1, 2: memory type 6; bits 3, 4: walk length minus one;
\* bit 6: accessed/dirty enable) and upper bits equal to the frame's
\* address, and VirtualProcessorId is written as 1.
C15_EptPointerValue ==
    /\ "EptPointer" \in written =>
          /\ fields["EptPointer"] \cap (0..11) = {1, 2, 3, 4, 6}
          /\ fields["EptPointer"] \ (0..11) = FrameAddr(frames["ept_pml4_frame"])
    /\ "VirtualProcessorId" \in written =>
          fields["VirtualProcessorId"] = {0}

\* both fields written for a root frame other than the first construction's
C15_Witness ==
    /\ {"EptPointer", "VirtualProcessorId"} \subseteq written
    /\ frames["ept_pml4_frame"] > 16
    /\ 16 \in fields["EptPointer"]

\* C16: for every value the CR0 and CR4 fixed-0 MSRs return, the value
\* written to GuestCr0 has bits 0 and 31 clear and every other bit as in the
\* CR0 MSR value, and the value written to GuestCr4 is the CR4 MSR value.
C16_GuestCrValues ==
    /\ "GuestCr0" \in written =>
          /\ 0 \notin fields["GuestCr0"]
          /\ 31 \notin fields["GuestCr0"]
          /\ \A b \in (0..63) \ {0, 31} :
                b \in fields["GuestCr0"] <=> b \in locals.msr_cr0_fixed0
    /\ "GuestCr4" \in written =>
          fields["GuestCr4"] = locals.msr_cr4_fixed0

\* both written from MSR values that have the two cleared bits and others set
C16_Witness ==
    /\ {"GuestCr0", "GuestCr4"} \subseteq written
    /\ {0, 5, 31} \subseteq locals.msr_cr0_fixed0
    /\ fields["GuestCr0"] = {5}
    /\ fields["GuestCr4"] = {5, 13}

\* the allocator requests made since execution-control programming began
\* (the task-register frame is the last one obtained before it)
CtrlRequests == allocRequests - frames["tr_base_frame"]

\* C17: when the allocator is exhausted at a page allocation of
\* execution-control programming, new returns an allocation error and no
\* machine; and that step asks the allocator for exactly three pages (one
\* virtual-APIC page and the two I/O bitmap pages), never more.
C17_CtrlAllocations ==
    (\E i \in 1..Len(started) : started[i] = CtrlStep) =>
        /\ (returned[CtrlStep] = "err" /\ allocFailedAt # 0 /\ NewOver) =>
              /\ pc = "failed"
              /\ result.kind = "AllocError"
              /\ ~machine.live
        /\ CtrlRequests <= 3
        /\ returned[CtrlStep] = "ok" => CtrlRequests = 3

\* the frames reachable from the EPT root: the root, the tables, the leaves
EptReachable ==
    {frames[r] : r \in {"ept_pml4_frame", "ept_pdpt", "ept_pd", "ept_pt"}}
    \cup {m[2] : m \in eptMap}

\* frame n is owned by the machine, reachable from the EPT root, or its
\* address is the current value of a field
Referenced(n) ==
    \/ n \in {machine.vmcs, machine.stack}
    \/ n \in EptReachable
    \/ \E f \in written : FrameOf(f) = FrameAddr(n)

\* C18: after a successful new every frame obtained from the allocator
\* during construction is still referenced, and only one frame was obtained
\* for the virtual-APIC page address (the field is written once); stated for
\* constructions in which no field write failed.
C18_NoOrphanFrame ==
    (result.kind = "Ok" /\ failedWrites = {}) =>
        /\ \A r \in Roles : frames[r] # 0 => Referenced(frames[r])
        /\ ~(frames["vapic"] # 0 /\ frames["vapic_frame"] # 0)

\* the entry instruction has been executed
VmlaunchIssued == entered \/ rflags # {} \/ pc = "in_guest"

\* C19: the entry instruction is executed only with the control structure
\* active after a successful activation, and a launch whose activation
\* failed returns the activation error without executing it.
C19_EntryAfterActivation ==
    /\ VmlaunchIssued => vmcsState = "Active"
    /\ (pc = "launch" /\ ip > 1) => vmcsState = "Active"
    /\ (pc = "launch_failed" /\ vmcsState # "Active") =>
          /\ launchResult = ActivateError
          /\ ~VmlaunchIssued

\* a launch has returned the activation error
C19_Witness ==
    /\ pc = "launch_failed"
    /\ launchResult = ActivateError
    /\ vmcsState = "Inactive"
    /\ ~VmlaunchIssued

SecondaryField == "SecondaryVmExecControl"

\* C20: no step of new or launch writes SecondaryVmExecControl, by a plain or
\* by a constrained write, successful or not: the field keeps the value it
\* had before construction and the EPT-enable bit is never put into it.
C20_SecondaryNeverWritten ==
    [][/\ fields'[SecondaryField] = fields[SecondaryField]
       /\ SecondaryField \notin written' \cup failedWrites'
       /\ fx'.field # SecondaryField
       /\ ENABLE_EPT \notin fields'[SecondaryField]]_vars

\* new has succeeded with the EPT pointer programmed and the activation of
\* secondary controls requested and granted, the secondary controls read
\* back, and the field still at its prior, non-zero value
C20_Witness ==
    /\ pc = "built"
    /\ "EptPointer" \in written
    /\ ACTIVATE_SECONDARY_CONTROLS \in fields["CpuBasedVmExecControl"]
    /\ lastRead = [field |-> SecondaryField, value |-> {7}]
    /\ fields[SecondaryField] = {7}

====
